---- MODULE Spec2Model ----
(***************************************************************************)
(* A model of jenkinsapi/artifact.py: class Artifact, its save operation   *)
(* (check the local copy, download, verify again), the chunked MD5 reader  *)
(* _md5sum, the two download transports of _do_download, and savetodir.    *)
(*                                                                         *)
(* One behaviour is one Artifact, one file system and one call of save or  *)
(* savetodir, executed statement by statement on the caller's thread.      *)
(* The module is Python 3 code (it imports urllib.request), so a file      *)
(* opened in mode 'rb' yields bytes objects and '' is a str object.        *)
(***************************************************************************)
EXTENDS Integers, Sequences, FiniteSets, TLC

\* ------------------------------------------------------------------ bounds
\* Longest file / remote body, in bytes.
MaxLen == 2
\* Bytes per block read by urllib.request.urlretrieve (8192 in the library).
UrlBlock == 1
\* The counter of reads at end-of-file saturates here.
MaxEofReads == 2
\* Longest file and largest chunksize when _md5sum is called directly.
HashMaxLen == 3
MaxChunk == 3

\* The default chunksize of _md5sum (2**20 in the source, scaled down).
Chunksize == 2

Bytes == {0, 1}

\* ----------------------------------------------------------------- strings
\* A Python str or bytes value is a sequence; paths are sequences of characters.
Dirpath == <<"d">>
Filenames == {<<"a">>, <<"b", "a">>}
BaseNames == {<<"a">>, <<"b", "a">>, <<"b">>}

\* os.path.join(dirpath, name) for a relative name.
Join(d, n) == d \o <<"/">> \o n

FilePaths == {Join(Dirpath, n) : n \in BaseNames}

\* str.endswith
EndsWith(s, suffix) ==
    /\ Len(suffix) <= Len(s)
    /\ SubSeq(s, Len(s) - Len(suffix) + 1, Len(s)) = suffix

\* os.path.basename: what follows the last "/".
Basename(p) ==
    LET slashes == {i \in DOMAIN p : p[i] = "/"}
        last == IF slashes = {} THEN 0
                ELSE CHOOSE i \in slashes : \A j \in slashes : j <= i
    IN  SubSeq(p, last + 1, Len(p))

RECURSIVE SeqsUpTo(_, _)
SeqsUpTo(S, n) ==
    IF n = 0 THEN {<<>>}
    ELSE LET shorter == SeqsUpTo(S, n - 1)
         IN  shorter \cup {Append(s, b) : s \in shorter, b \in S}

Contents == SeqsUpTo(Bytes, MaxLen)

\* A file system entry: a file with its bytes, or no file at that path.
File(c) == [exists |-> TRUE, data |-> c]
NoFile == [exists |-> FALSE, data |-> <<>>]
Entries == {File(c) : c \in Contents} \cup {NoFile}

Min(a, b) == IF a <= b THEN a ELSE b

\* ------------------------------------------------------------ Python values
\* A bytes object and a str object never compare equal in Python 3.
PyBytes(s) == [type |-> "bytes", val |-> s]
PyStr(s) == [type |-> "str", val |-> s]

\* f.read(n) on a binary file at position pos: the next n bytes, b'' at the end.
FRead(content, pos, n) ==
    PyBytes(SubSeq(content, pos + 1, Min(pos + n, Len(content))))

\* The sentinel of iter(lambda: f.read(chunksize), '').
Sentinel == PyStr(<<>>)

\* ------------------------------------------------------------- hashlib.md5
\* The md5 object is a block hash: bytes are buffered until a block is full,
\* a full block is compressed into the chaining value h, and the digest pads
\* the last partial block and mixes in the number of bytes hashed. The block
\* length (64 bytes in MD5) and the digest width (128 bits) are scaled down.
Md5Block == 2
Md5Mod == 251

\* hashlib.md5()
Md5New == [h |-> 1, buf |-> <<>>, n |-> 0]

RECURSIVE BlockValue(_)
BlockValue(block) ==
    IF block = <<>> THEN 0
    ELSE Len(block) * (block[Len(block)] + 1) + 3 * BlockValue(SubSeq(block, 1, Len(block) - 1))

Compress(h, block) == (h * 31 + BlockValue(block)) % Md5Mod

\* md5.update(data): the bytes go through the buffer one by one.
RECURSIVE Md5Update(_, _)
Md5Update(st, data) ==
    IF data = <<>> THEN st
    ELSE LET full == Append(st.buf, data[1])
             next == IF Len(full) = Md5Block
                     THEN [h |-> Compress(st.h, full), buf |-> <<>>, n |-> st.n + 1]
                     ELSE [h |-> st.h, buf |-> full, n |-> st.n + 1]
         IN  Md5Update(next, SubSeq(data, 2, Len(data)))

\* md5.hexdigest()
HexDigest(st) == (Compress(st.h, Append(st.buf, 2)) * 31 + st.n) % Md5Mod

\* The digest of a whole content, hashed in one piece.
Md5Digest(content) == HexDigest(Md5Update(Md5New, content))

\* What Fingerprint.validate_for_build can do: answer True, answer False, or
\* raise ArtifactBroken because the hash is unknown or the server unreachable.
OracleAnswers == {"confirmed", "denied", "unknown", "unreachable"}

\* ------------------------------------------------------------------- state
VARIABLES
    build,      \* self.build is set (TRUE) or None (FALSE)
    oracle,     \* what the fingerprint service does when it is queried
    filename,   \* self.filename
    remote,     \* the bytes served at self.url
    dirKind,    \* what dirpath is on disk: "absent", "dir" or "file"
    files,      \* the file system: path -> content, or NoFile
    files0,     \* the file system when the call started
    pc,         \* position of the caller's thread
    entry,      \* the operation called: "none", "save", "savetodir"
    fspath,     \* save's argument
    phase,      \* which verification is running: "none", "pre", "post"
    chunksize,  \* the chunksize argument of _md5sum
    md5,        \* the hashlib.md5 object of _md5sum
    chunk,      \* the chunk _md5sum has just read
    fpos,       \* read position of the file _md5sum has open
    eofReads,   \* reads of _md5sum that returned b'' (saturating)
    stream,     \* the response body held by the transport
    rpos,       \* urlretrieve's read position in the response
    handles,    \* local file handles that are open
    log,        \* messages logged
    events,     \* observable steps of the call, in order
    result,     \* how the call ended: none, returned a path, raised
    race        \* two callers downloading to the same path at once

vars == <<build, oracle, filename, remote, dirKind, files, files0, pc, entry, fspath,
          phase, chunksize, md5, chunk, fpos, eofReads, stream, rpos, handles, log,
          events, result, race>>

NoResult == [kind |-> "none", val |-> <<>>]
Returned(p) == [kind |-> "returned", val |-> p]
Raised(e) == [kind |-> "raised", val |-> <<e>>]

Count(seq, e) == Cardinality({i \in DOMAIN seq : seq[i] = e})

\* Two callers of save on the same path, each with its own artifact, its own
\* response body and its own file object (position off).
Writers == {1, 2}
Writer(b, c) == [pc |-> "start", build |-> b, stream |-> c, off |-> 0]
NoRace == [wr |-> [w \in Writers |-> Writer(FALSE, <<>>)], last |-> 0, overlap |-> FALSE]

\* os.path.exists for a file path
Exists(p) == files[p].exists

\* __init__ and the environment before the call.
Init ==
    /\ build \in BOOLEAN
    /\ filename \in Filenames
    /\ remote \in Contents
    /\ dirKind \in {"absent", "dir", "file"}
    /\ \E p \in FilePaths, e \in Entries :
           files = [q \in FilePaths |-> IF q = p THEN e ELSE NoFile]
    /\ oracle \in OracleAnswers
    /\ dirKind # "dir" => \A p \in FilePaths : files[p] = NoFile
    /\ files0 = files
    /\ pc = "idle"
    /\ entry = "none"
    /\ fspath = <<>>
    /\ phase = "none"
    /\ chunksize = Chunksize
    /\ md5 = Md5New
    /\ chunk = PyBytes(<<>>)
    /\ fpos = 0
    /\ eofReads = 0
    /\ stream = <<>>
    /\ rpos = 0
    /\ handles = {}
    /\ log = <<>>
    /\ events = <<>>
    /\ result = NoResult
    /\ race = NoRace

Env == <<build, oracle, filename, remote, dirKind, files0, chunksize, race>>
Hash == <<md5, chunk, fpos, eofReads>>

\* The caller calls save(fspath).
Save_Call(p) ==
    /\ pc = "idle"
    /\ entry' = "save"
    /\ fspath' = p
    /\ pc' = "save"
    /\ UNCHANGED <<Env, files, phase, Hash, stream, rpos, handles, log, events, result>>

\* savetodir with its assertions stripped: it joins and calls save at once.
Savetodir_NoAssert(d) ==
    /\ pc = "idle"
    /\ entry' = "savetodir"
    /\ fspath' = Join(d, filename)
    /\ pc' = "save"
    /\ UNCHANGED <<Env, files, phase, Hash, stream, rpos, handles, log, events, result>>

\* savetodir, lines 107-110: the two assertions, the join, the call of save.
Savetodir(d) ==
    /\ pc = "idle"
    /\ entry' = "savetodir"
    /\ IF dirKind # "dir"
       THEN /\ pc' = "raised"
            /\ result' = Raised("AssertionError")
            /\ UNCHANGED fspath
       ELSE /\ fspath' = Join(d, filename)
            /\ pc' = "save"
            /\ UNCHANGED result
    /\ UNCHANGED <<Env, files, phase, Hash, stream, rpos, handles, log, events>>

\* save, lines 43-45: the log line and the advisory name check.
Save_Log ==
    /\ pc = "save"
    /\ log' = log \o <<"saving">> \o
              (IF ~EndsWith(fspath, filename) THEN <<"warn_rename">> ELSE <<>>)
    /\ pc' = "exists"
    /\ UNCHANGED <<Env, files, entry, fspath, phase, Hash, stream, rpos, handles,
                   events, result>>

\* save trusting any local copy when there is no build: it returns the path
\* instead of falling through to the download.
Save_Exists_TrustLocal ==
    /\ pc = "exists"
    /\ IF Exists(fspath)
       THEN IF build
            THEN /\ phase' = "pre"
                 /\ events' = Append(events, "verify_pre")
                 /\ pc' = "md5_open"
                 /\ UNCHANGED <<log, result>>
            ELSE /\ log' = Append(log, "not_from_jenkins")
                 /\ pc' = "returned"
                 /\ result' = Returned(fspath)
                 /\ UNCHANGED <<phase, events>>
       ELSE /\ log' = Append(log, "missing")
            /\ pc' = "download"
            /\ UNCHANGED <<phase, events, result>>
    /\ UNCHANGED <<Env, files, entry, fspath, Hash, stream, rpos, handles>>

\* save, lines 46-57: is there a local copy, and can it be checked?
Save_Exists ==
    /\ pc = "exists"
    /\ IF Exists(fspath)
       THEN IF build
            THEN /\ phase' = "pre"
                 /\ events' = Append(events, "verify_pre")
                 /\ pc' = "md5_open"
                 /\ UNCHANGED log
            ELSE /\ log' = Append(log, "not_from_jenkins")
                 /\ pc' = "download"
                 /\ UNCHANGED <<phase, events>>
       ELSE /\ log' = Append(log, "missing")
            /\ pc' = "download"
            /\ UNCHANGED <<phase, events>>
    /\ UNCHANGED <<Env, files, entry, fspath, Hash, stream, rpos, handles, result>>

\* _verify_download line 84 and _md5sum lines 93-95: a fresh md5 object, open(fspath, 'rb').
Md5_Open ==
    /\ pc = "md5_open"
    /\ md5' = Md5New
    /\ fpos' = 0
    /\ eofReads' = 0
    /\ UNCHANGED chunk
    /\ IF Exists(fspath)
       THEN /\ handles' = handles \cup {"rb"}
            /\ pc' = "md5_read"
            /\ UNCHANGED result
       ELSE /\ pc' = "raised"
            /\ result' = Raised("IOError")
            /\ UNCHANGED handles
    /\ UNCHANGED <<Env, files, entry, fspath, phase, stream, rpos, log, events>>

\* _md5sum line 96, the iterator's call of its callable: f.read(chunksize)
\* returns the next chunk and moves the file position.
Md5_Read ==
    /\ pc = "md5_read"
    /\ chunk' = FRead(files[fspath].data, fpos, chunksize)
    /\ fpos' = fpos + Len(chunk'.val)
    /\ eofReads' = IF chunk'.val = <<>> THEN Min(eofReads + 1, MaxEofReads)
                   ELSE eofReads
    /\ pc' = "md5_chunk"
    /\ UNCHANGED <<Env, files, entry, fspath, phase, md5, stream, rpos, handles, log,
                   events, result>>

\* _md5sum with the md5 object created anew in every round of the loop.
Md5_Update_Fresh ==
    /\ pc = "md5_chunk"
    /\ IF chunk = Sentinel
       THEN /\ pc' = "fingerprint"
            /\ handles' = handles \ {"rb"}
            /\ UNCHANGED md5
       ELSE /\ md5' = Md5Update(Md5New, chunk.val)
            /\ pc' = "md5_read"
            /\ UNCHANGED handles
    /\ UNCHANGED <<Env, files, entry, fspath, phase, chunk, fpos, eofReads, stream, rpos,
                   log, events, result>>

\* _md5sum lines 96-97, the rest of the round: the iterator compares the chunk
\* with its sentinel ''. Equal ends the loop (the with block closes the file);
\* otherwise the body folds the chunk into md5 and the loop reads again.
Md5_Update ==
    /\ pc = "md5_chunk"
    /\ IF chunk = Sentinel
       THEN /\ pc' = "fingerprint"
            /\ handles' = handles \ {"rb"}
            /\ UNCHANGED md5
       ELSE /\ md5' = Md5Update(md5, chunk.val)
            /\ pc' = "md5_read"
            /\ UNCHANGED handles
    /\ UNCHANGED <<Env, files, entry, fspath, phase, chunk, fpos, eofReads, stream, rpos,
                   log, events, result>>

\* _md5sum without the with block: a failed read leaves the file open.
Md5_ReadError_Leak ==
    /\ pc = "md5_read"
    /\ pc' = "raised"
    /\ result' = Raised("IOError")
    /\ UNCHANGED <<Env, files, entry, fspath, phase, Hash, stream, rpos, handles, log,
                   events>>

\* _md5sum lines 96-99: the operating system fails the read. The with block
\* closes the file, the error is re-raised, and nothing in save catches it.
Md5_ReadError ==
    /\ pc = "md5_read"
    /\ pc' = "raised"
    /\ result' = Raised("IOError")
    /\ handles' = handles \ {"rb"}
    /\ UNCHANGED <<Env, files, entry, fspath, phase, Hash, stream, rpos, log, events>>

\* _do_download trying the opener a second time when it fails.
Download_Opener_Retry ==
    /\ pc = "download"
    /\ build
    /\ \E ok \in BOOLEAN :
        /\ events' = IF ok THEN Append(events, "fetch_opener")
                      ELSE events \o <<"fetch_opener", "fetch_failed", "fetch_opener">>
        /\ stream' = remote
        /\ pc' = "dl_open"
    /\ UNCHANGED <<Env, files, entry, fspath, phase, Hash, rpos, handles, log, result>>

\* _do_download with the test of self.build inverted: the opener is used when
\* there is no build.
Download_Opener_Inverted ==
    /\ pc = "download"
    /\ ~build
    /\ \E ok \in BOOLEAN :
        IF ok
        THEN /\ stream' = remote
             /\ events' = Append(events, "fetch_opener")
             /\ pc' = "dl_open"
             /\ UNCHANGED result
        ELSE /\ pc' = "raised"
             /\ result' = Raised("URLError")
             /\ events' = events \o <<"fetch_opener", "fetch_failed">>
             /\ UNCHANGED stream
    /\ UNCHANGED <<Env, files, entry, fspath, phase, Hash, rpos, handles, log>>

\* _do_download lines 69-71: the build's opener fetches the URL.
Download_Opener ==
    /\ pc = "download"
    /\ build
    /\ \E ok \in BOOLEAN :
        IF ok
        THEN /\ stream' = remote
             /\ events' = Append(events, "fetch_opener")
             /\ pc' = "dl_open"
             /\ UNCHANGED result
        ELSE /\ pc' = "raised"
             /\ result' = Raised("URLError")
             /\ events' = events \o <<"fetch_opener", "fetch_failed">>
             /\ UNCHANGED stream
    /\ UNCHANGED <<Env, files, entry, fspath, phase, Hash, rpos, handles, log>>

\* _do_download line 72: open(fspath, "wb") truncates the file.
Download_OpenOut ==
    /\ pc = "dl_open"
    /\ IF dirKind = "dir"
       THEN /\ files' = [files EXCEPT ![fspath] = File(<<>>)]
            /\ handles' = handles \cup {"wb"}
            /\ events' = Append(events, "truncate")
            /\ pc' = "dl_write"
            /\ UNCHANGED result
       ELSE /\ pc' = "raised"
            /\ result' = Raised("IOError")
            /\ UNCHANGED <<files, handles, events>>
    /\ UNCHANGED <<Env, entry, fspath, phase, Hash, stream, rpos, log>>

\* _do_download swallowing a failed f.read(): it returns fspath all the same.
Download_Write_Swallow ==
    /\ pc = "dl_write"
    /\ \E ok \in BOOLEAN :
        IF ok
        THEN /\ files' = [files EXCEPT ![fspath] = File(stream)]
             /\ events' = Append(events, "downloaded")
        ELSE /\ events' = Append(events, "fetch_failed")
             /\ UNCHANGED files
    /\ pc' = "downloaded"
    /\ handles' = handles \ {"wb"}
    /\ UNCHANGED <<Env, entry, fspath, phase, Hash, stream, rpos, log, result>>

\* _do_download lines 73-75: out.write(f.read()), the with block closes out,
\* return fspath.
Download_Write ==
    /\ pc = "dl_write"
    /\ \E ok \in BOOLEAN :
        IF ok
        THEN /\ files' = [files EXCEPT ![fspath] = File(stream)]
             /\ events' = Append(events, "downloaded")
             /\ pc' = "downloaded"
             /\ UNCHANGED result
        ELSE /\ pc' = "raised"
             /\ result' = Raised("URLError")
             /\ events' = Append(events, "fetch_failed")
             /\ UNCHANGED files
    /\ handles' = handles \ {"wb"}
    /\ UNCHANGED <<Env, entry, fspath, phase, Hash, stream, rpos, log>>

\* _do_download line 77, first part: urlretrieve opens the URL, then the file.
Download_Urlretrieve ==
    /\ pc = "download"
    /\ ~build
    /\ \E ok \in BOOLEAN :
        IF ~ok
        THEN /\ pc' = "raised"
             /\ result' = Raised("URLError")
             /\ events' = events \o <<"fetch_plain", "fetch_failed">>
             /\ UNCHANGED <<files, handles, stream>>
        ELSE IF dirKind # "dir"
        THEN /\ pc' = "raised"
             /\ result' = Raised("IOError")
             /\ events' = Append(events, "fetch_plain")
             /\ UNCHANGED <<files, handles, stream>>
        ELSE /\ stream' = remote
             /\ files' = [files EXCEPT ![fspath] = File(<<>>)]
             /\ handles' = handles \cup {"wb"}
             /\ events' = events \o <<"fetch_plain", "truncate">>
             /\ pc' = "dl_block"
             /\ UNCHANGED result
    /\ rpos' = 0
    /\ UNCHANGED <<Env, entry, fspath, phase, Hash, log>>

\* _do_download lines 77-78, the copy loop of urlretrieve: read a block and
\* write it; the empty block ends the loop, the file is closed, filename returned.
Download_UrlretrieveBlock ==
    /\ pc = "dl_block"
    /\ \E ok \in BOOLEAN :
        IF ~ok
        THEN /\ pc' = "raised"
             /\ result' = Raised("URLError")
             /\ handles' = handles \ {"wb"}
             /\ events' = Append(events, "fetch_failed")
             /\ UNCHANGED <<files, rpos>>
        ELSE LET block == SubSeq(stream, rpos + 1, Min(rpos + UrlBlock, Len(stream)))
             IN  IF block = <<>>
                 THEN /\ pc' = "downloaded"
                      /\ handles' = handles \ {"wb"}
                      /\ events' = Append(events, "downloaded")
                      /\ UNCHANGED <<files, rpos, result>>
                 ELSE /\ files' = [files EXCEPT ![fspath] = File(@.data \o block)]
                      /\ rpos' = rpos + Len(block)
                      /\ UNCHANGED <<pc, handles, events, result>>
    /\ UNCHANGED <<Env, entry, fspath, phase, Hash, stream, log>>

\* save lines 58-60: filename = the path _do_download returned; verify it.
Save_PostVerify ==
    /\ pc = "downloaded"
    /\ phase' = "post"
    /\ events' = Append(events, "verify_post")
    /\ pc' = "md5_open"
    /\ UNCHANGED <<Env, files, entry, fspath, Hash, stream, rpos, handles, log, result>>

\* What Fingerprint.validate_for_build does with the digest: TRUE or FALSE for
\* an answer, "ArtifactBroken" when it raises (unknown hash, server unreachable).
ValidateForBuild(o) ==
    IF o = "confirmed" THEN "True"
    ELSE IF o = "denied" THEN "False"
    ELSE "ArtifactBroken"

\* _verify_download lines 85-86 and what save does with the outcome (lines
\* 49-53 before the download, 60-63 after it). It continues from the exit of
\* the read loop of _md5sum, pc = "fingerprint". HashLoopNeverExits shows that
\* no behaviour gets there, so it is no disjunct of Next.
Save_Verified ==
    /\ pc = "fingerprint"
    /\ IF ~build
       THEN \* self.build.job with self.build None
            /\ pc' = "raised"
            /\ result' = Raised("AttributeError")
            /\ UNCHANGED <<log, events>>
       ELSE LET outcome == ValidateForBuild(oracle)
            IN  /\ events' = Append(events, "oracle")
                /\ IF phase = "pre"
                   THEN IF outcome = "True"
                        THEN /\ log' = Append(log, "up_to_date")
                             /\ pc' = "returned"
                             /\ result' = Returned(fspath)
                        ELSE /\ log' = IF outcome = "ArtifactBroken"
                                       THEN Append(log, "not_identified")
                                       ELSE log
                             /\ pc' = "download"
                             /\ UNCHANGED result
                   ELSE /\ log' = IF outcome = "ArtifactBroken"
                                  THEN Append(log, "not_verified")
                                  ELSE log
                        /\ pc' = "returned"
                        /\ result' = Returned(fspath)
    /\ UNCHANGED <<Env, files, entry, fspath, phase, Hash, stream, rpos, handles>>

Next ==
    \/ \E p \in FilePaths : Save_Call(p)
    \/ Savetodir(Dirpath)
    \/ Save_Log
    \/ Save_Exists
    \/ Md5_Open
    \/ Md5_Read
    \/ Md5_Update
    \/ Md5_ReadError
    \/ Download_Opener
    \/ Download_OpenOut
    \/ Download_Write
    \/ Download_Urlretrieve
    \/ Download_UrlretrieveBlock
    \/ Save_PostVerify

Spec == Init /\ [][Next]_vars

\* The call runs on one thread that keeps executing its next statement.
FairSpec == Spec /\ WF_vars(Next)

\* ------------------------------------------------- _md5sum called directly
\* _md5sum(fspath, chunksize) on any file and with any positive chunksize.
HashContents == SeqsUpTo(Bytes, HashMaxLen)

HashInit ==
    /\ build \in BOOLEAN
    /\ oracle = "confirmed"
    /\ filename = <<"a">>
    /\ remote = <<>>
    /\ dirKind = "dir"
    /\ fspath \in FilePaths
    /\ \E e \in {File(c) : c \in HashContents} \cup {NoFile} :
           files = [q \in FilePaths |-> IF q = fspath THEN e ELSE NoFile]
    /\ files0 = files
    /\ chunksize \in 1..MaxChunk
    /\ pc = "md5_open"
    /\ entry = "_md5sum"
    /\ phase = "none"
    /\ md5 = Md5New
    /\ chunk = PyBytes(<<>>)
    /\ fpos = 0
    /\ eofReads = 0
    /\ stream = <<>>
    /\ rpos = 0
    /\ handles = {}
    /\ log = <<>>
    /\ events = <<>>
    /\ result = NoResult
    /\ race = NoRace

HashNext ==
    \/ Md5_Open
    \/ Md5_Read
    \/ Md5_Update
    \/ Md5_ReadError

SpecHash == HashInit /\ [][HashNext]_vars

\* ------------------------------------------- two saves on the same path
\* The download step of two callers, interleaved. Each caller has fetched its
\* response body; the file at fspath is shared, nothing locks it.
RaceFrame == <<build, oracle, filename, remote, dirKind, files0, chunksize, pc, entry,
               fspath, phase, Hash, stream, rpos, handles, log, events, result>>

RaceInit ==
    /\ build = FALSE
    /\ oracle = "confirmed"
    /\ filename = <<"a">>
    /\ remote = <<>>
    /\ dirKind = "dir"
    /\ fspath = Join(Dirpath, filename)
    /\ \E e \in Entries :
           files = [q \in FilePaths |-> IF q = fspath THEN e ELSE NoFile]
    /\ files0 = files
    /\ chunksize = Chunksize
    /\ pc = "download"
    /\ entry = "save"
    /\ phase = "none"
    /\ md5 = Md5New
    /\ chunk = PyBytes(<<>>)
    /\ fpos = 0
    /\ eofReads = 0
    /\ stream = <<>>
    /\ rpos = 0
    /\ handles = {}
    /\ log = <<>>
    /\ events = <<>>
    /\ result = NoResult
    /\ \E b1, b2 \in BOOLEAN, c1, c2 \in Contents :
           race = [wr |-> [w \in Writers |-> IF w = 1 THEN Writer(b1, c1)
                                                     ELSE Writer(b2, c2)],
                   last |-> 0, overlap |-> FALSE]

\* write(2) of data at offset off: bytes beyond the end extend the file, a gap
\* before off reads as zero bytes.
WriteAt(content, off, data) ==
    LET size == IF Len(content) > off + Len(data) THEN Len(content) ELSE off + Len(data)
    IN  [i \in 1..size |->
            IF i > off /\ i <= off + Len(data) THEN data[i - off]
            ELSE IF i <= Len(content) THEN content[i]
            ELSE 0]

\* open(fspath, "wb") without truncation, as mode "r+b" would do.
Race_Open_NoTruncate(w) ==
    /\ race.wr[w].pc = "start"
    /\ files' = [files EXCEPT ![fspath] = File(@.data)]
    /\ race' = [race EXCEPT !.wr[w].pc = "writing",
                            !.overlap = @ \/ \E v \in Writers \ {w} :
                                                race.wr[v].pc = "writing"]
    /\ UNCHANGED RaceFrame

\* _do_download line 72, and the open(filename, 'wb') of urlretrieve in line
\* 77: the file is created or truncated, the writer's position is 0.
Race_Open(w) ==
    /\ race.wr[w].pc = "start"
    /\ files' = [files EXCEPT ![fspath] = File(<<>>)]
    /\ race' = [race EXCEPT !.wr[w].pc = "writing",
                            !.overlap = @ \/ \E v \in Writers \ {w} :
                                                race.wr[v].pc = "writing"]
    /\ UNCHANGED RaceFrame

\* _do_download line 73, out.write(f.read()): the whole body in one write; and
\* the copy loop of urlretrieve in line 77: one block in one write. Each write
\* lands at the writer's own position.
Race_Write(w) ==
    LET me == race.wr[w]
        n == IF me.build THEN Len(me.stream) ELSE UrlBlock
        data == SubSeq(me.stream, me.off + 1, Min(me.off + n, Len(me.stream)))
    IN  /\ me.pc = "writing"
        /\ me.off < Len(me.stream)
        /\ files' = [files EXCEPT ![fspath] = File(WriteAt(@.data, me.off, data))]
        /\ race' = [race EXCEPT !.wr[w].off = @ + Len(data)]
        /\ UNCHANGED RaceFrame

\* _do_download lines 72-75 and 77-78: the body is written, the with block
\* closes the file and the path is returned.
Race_Close(w) ==
    /\ race.wr[w].pc = "writing"
    /\ race.wr[w].off = Len(race.wr[w].stream)
    /\ race' = [race EXCEPT !.wr[w].pc = "done", !.last = w]
    /\ UNCHANGED <<RaceFrame, files>>

RaceNext ==
    \E w \in Writers :
        \/ Race_Open(w)
        \/ Race_Write(w)
        \/ Race_Close(w)

SpecRace == RaceInit /\ [][RaceNext]_vars

TypeOK ==
    /\ pc \in {"idle", "save", "exists", "md5_open", "md5_read", "md5_chunk", "fingerprint",
               "download", "dl_open", "dl_write", "dl_block", "downloaded", "raised",
               "returned"}
    /\ result.kind \in {"none", "returned", "raised"}
    /\ handles \subseteq {"rb", "wb"}
    /\ phase \in {"none", "pre", "post"}

\* The read loop of _md5sum is never left by its sentinel: a chunk is a bytes
\* object and the sentinel a str object.
HashLoopNeverExits == pc # "fingerprint"

\* ------------------------------------------------------------------ claims
\* save has been entered with a path.
InCall == entry \in {"save", "savetodir"} /\ fspath \in FilePaths
\* There was a file at the destination when save was called.
HadFile == InCall /\ files0[fspath].exists
Has(e) == Count(events, e) > 0
Fetches == Count(events, "fetch_opener") + Count(events, "fetch_plain")
\* save has ended by returning its argument / by a local read error.
ReturnedPath == result = Returned(fspath)
LocalReadError == result = Raised("IOError")

\* C1 -- P1 short-circuit: a save with a build context, an existing file and an
\* oracle that confirms its hash never fetches, leaves the file's bytes as they
\* were, and returns destinationPath.
C1_Case == InCall /\ build /\ HadFile /\ oracle = "confirmed"
C1_ShortCircuit ==
    /\ [](C1_Case => (Fetches = 0 /\ files = files0))
    /\ (C1_Case ~> (ReturnedPath \/ LocalReadError))

\* C2 as stated -- P2: a save without build context on an existing file has, by
\* the time it ends or reaches the post-download check, skipped the
\* pre-download verification, invoked the plain fetch and overwritten the file.
C2_Case == InCall /\ ~build /\ HadFile
C2_AlwaysOverwrites ==
    (C2_Case /\ pc \in {"raised", "downloaded", "md5_open", "md5_read", "md5_chunk"}) =>
        /\ ~Has("verify_pre")
        /\ ~Has("fetch_opener")
        /\ Has("fetch_plain")
        /\ Has("truncate")

\* C2 amended -- a save without build context on an existing file skips the
\* pre-download verification and always invokes the plain fetch (never the
\* opener); once the fetch has opened the destination for writing the old
\* content is gone and the file holds exactly the bytes received so far (the
\* whole body when the download completes); if the fetch fails before that,
\* the file is left as it was.
C2_UntrustedWithoutContext ==
    /\ [](C2_Case => (~Has("verify_pre") /\ ~Has("fetch_opener")))
    /\ (C2_Case ~> Has("fetch_plain"))
    /\ [](C2_Case /\ Has("truncate") => files[fspath] = File(SubSeq(remote, 1, rpos)))
    /\ [](C2_Case /\ Has("downloaded") => files[fspath] = File(remote))
    /\ [](C2_Case /\ Has("fetch_plain") /\ ~Has("truncate") =>
            (files = files0 /\ result = Raised("URLError")))
C2_Witness ==
    /\ C2_Case
    /\ pc = "downloaded"
    /\ files[fspath] = File(remote)
    /\ files0[fspath] # File(remote)

\* C3 -- without a build context, once the download step has succeeded save
\* returns the downloaded path and raises nothing.
C3_Case == InCall /\ ~build /\ pc = "downloaded"
C3_NoContextAbsorbed ==
    /\ [](InCall /\ ~build /\ Has("downloaded") => result.kind # "raised" \/ LocalReadError)
    /\ (C3_Case ~> (ReturnedPath \/ LocalReadError))

\* C4 -- P3 download-on-mismatch: with a build context and an existing file that
\* the pre-download verification does not confirm, save invokes the fetch.
C4_Case == InCall /\ build /\ HadFile /\ oracle # "confirmed" /\ pc = "exists"
C4_DownloadOnMismatch == C4_Case ~> (Fetches >= 1 \/ LocalReadError)

\* C5 -- P4: when the download succeeds and the oracle raises ArtifactBroken in
\* the post-download check, save still returns the path and raises nothing.
C5_Case ==
    InCall /\ build /\ pc = "downloaded" /\ ValidateForBuild(oracle) = "ArtifactBroken"
C5_ResilientToUnverifiable == C5_Case ~> (ReturnedPath \/ LocalReadError)

\* C6 -- a transport failure while querying the oracle is absorbed: in the
\* pre-download verification save goes on to download, in the post-download
\* verification it returns the path, and it never raises because of it.
C6_Pre == InCall /\ build /\ oracle = "unreachable" /\ phase = "pre" /\ pc = "md5_open"
C6_Post == InCall /\ build /\ oracle = "unreachable" /\ phase = "post" /\ pc = "md5_open"
C6_OracleFailureAbsorbed ==
    /\ [](InCall /\ build /\ oracle = "unreachable" /\ phase = "post" =>
            (result.kind # "raised" \/ LocalReadError))
    /\ (C6_Pre ~> (Fetches >= 1 \/ LocalReadError))
    /\ (C6_Post ~> (ReturnedPath \/ LocalReadError))

\* C8 -- P6: savetodir on a path that is absent or no directory fails with the
\* assertion before save is entered: no fetch, no verification, no write, no
\* log line of save.
C8_DirectoryPrecondition ==
    (entry = "savetodir" /\ dirKind # "dir") =>
        /\ pc = "raised"
        /\ result = Raised("AssertionError")
        /\ fspath = <<>>
        /\ events = <<>>
        /\ log = <<>>
        /\ handles = {}
        /\ files = files0
C8_Witness ==
    /\ entry = "savetodir"
    /\ dirKind = "absent"
    /\ build
    /\ result = Raised("AssertionError")

\* C9 -- when the transport raises while opening or reading the URL, save ends
\* by raising that failure: it returns no path and runs no post-download
\* verification.
C9_DownloadFailurePropagates ==
    Has("fetch_failed") =>
        /\ pc = "raised"
        /\ result = Raised("URLError")
        /\ ~Has("verify_post")
        /\ ~Has("downloaded")
        /\ phase # "post"
C9_Witness ==
    /\ Has("fetch_failed")
    /\ Has("truncate")
    /\ build
    /\ pc = "raised"

\* C10 -- transport selection: a save that downloads uses the build's opener
\* exactly when there is a build context and the plain fetch exactly when
\* there is none, and at most one transport, once.
C10_TransportSelection ==
    /\ Has("fetch_opener") => build
    /\ Has("fetch_plain") => ~build
    /\ Fetches <= 1
    /\ (Has("truncate") \/ Has("downloaded") \/ phase = "post") => Fetches = 1
    /\ pc \in {"dl_open", "dl_write", "dl_block", "downloaded"} => Fetches = 1
C10_Witness ==
    /\ build
    /\ pc = "downloaded"
    /\ Has("fetch_opener")
    /\ files[fspath] = File(remote)
    /\ remote # <<>>

\* C11 -- fresh download: with a build context and no file at destinationPath,
\* save fetches once, writes the file, then queries the oracle once (after the
\* write, never before the fetch) and returns destinationPath.
C11_Case == InCall /\ build /\ ~HadFile /\ oracle = "confirmed"
C11_FreshDownload ==
    /\ [](C11_Case => /\ Fetches <= 1
                       /\ ~Has("verify_pre")
                       /\ Has("verify_post") => Has("downloaded"))
    /\ ((C11_Case /\ pc = "downloaded") ~>
            \/ /\ ReturnedPath
               /\ Count(events, "oracle") = 1
               /\ files[fspath] = File(remote)
            \/ LocalReadError)

\* C12 -- _md5sum terminates: the read loop stops once a read has returned the
\* end-of-file value, so it never reads again after that.
C12_HashTerminates == pc = "md5_read" => eofReads = 0

\* C13 -- when the oracle answers not-confirmed after the download, save does
\* not delete, modify or fetch the file again and does not fail: it returns the
\* path.
C13_Case == InCall /\ build /\ oracle = "denied" /\ pc = "downloaded"
C13_DisagreementKeepsFile ==
    /\ [](InCall /\ build /\ oracle = "denied" /\ phase = "post" =>
            /\ files[fspath] = File(remote)
            /\ Fetches = 1
            /\ result.kind # "raised" \/ LocalReadError)
    /\ (C13_Case ~> (ReturnedPath \/ LocalReadError))

\* C14 -- name check: save logs the rename warning exactly when the final
\* component of destinationPath differs from the artifact's name.
C14_WarnsOnRename ==
    (InCall /\ pc \notin {"idle", "save"}) =>
        (Count(log, "warn_rename") > 0 <=> Basename(fspath) # filename)

BothDone == \A w \in Writers : race.wr[w].pc = "done"
C15_NeverAMixture ==
    BothDone => \E w \in Writers : files[fspath] = File(race.wr[w].stream)

\* C15 amended -- nothing locks the file: when the two downloads do not
\* overlap (one caller has closed the file before the other opens it) the
\* file holds the complete stream of the writer that finished last; when they
\* overlap it may mix them, each byte being the byte one of the writers wrote
\* at that offset or a zero of a gap, and the file is no longer than the
\* longer stream.
C15_LastWriterWinsUnlessOverlap ==
    BothDone =>
        LET data == files[fspath].data
        IN  /\ files[fspath].exists
            /\ ~race.overlap => data = race.wr[race.last].stream
            /\ \A i \in DOMAIN data :
                   \/ data[i] = 0
                   \/ \E w \in Writers : /\ i <= Len(race.wr[w].stream)
                                          /\ data[i] = race.wr[w].stream[i]
            /\ \E w \in Writers : Len(data) <= Len(race.wr[w].stream)
C15_Witness ==
    /\ BothDone
    /\ race.overlap
    /\ \A w \in Writers : files[fspath].data # race.wr[w].stream

\* C16 -- no retry: one save call fetches at most once and starts at most one
\* verification before the download and one after it; a failed fetch or a
\* failed verification ends the call.
C16_NoRetry ==
    /\ Fetches <= 1
    /\ Count(events, "fetch_failed") <= 1
    /\ Count(events, "verify_pre") <= 1
    /\ Count(events, "verify_post") <= 1
    /\ \A i \in DOMAIN events :
        /\ events[i] = "verify_pre" => i = 1
        /\ events[i] = "verify_post" => (i = Len(events) /\ Has("downloaded"))
    /\ Has("fetch_failed") => pc = "raised"
    /\ (phase # "none" /\ LocalReadError) => pc = "raised"
C16_Witness ==
    /\ Fetches = 1
    /\ Count(events, "verify_post") = 1
    /\ phase = "post"
    /\ LocalReadError

\* C17 -- scoped file handles: the handle of _md5sum is open only inside its
\* read loop and the handle of the download only while it writes; none is open
\* once an operation has been left, by return or by exception.
C17_ScopedHandles ==
    /\ "rb" \in handles => pc \in {"md5_read", "md5_chunk"}
    /\ "wb" \in handles => pc \in {"dl_write", "dl_block"}
    /\ pc \in {"raised", "returned", "downloaded"} => handles = {}
C17_Witness ==
    /\ pc = "raised"
    /\ LocalReadError
    /\ phase = "post"
    /\ Has("truncate")
    /\ handles = {}
====
